---- MODULE Spec2Model ----
(***************************************************************************)
(* Measurement tools over a Cesium viewer: the MeasureToolbox element      *)
(* (measurementTools.js), the ThreePointsCurve tool (ThreePointsCurve.js   *)
(* and its array-based twin threePointsCurve.js) and the Points bookmark   *)
(* tool.  All handlers run on the browser's single event loop, so every    *)
(* handler invocation is one atomic action.                                *)
(*                                                                         *)
(* Numbers: JavaScript doubles are modelled in fixed point.  A coordinate  *)
(* or a length is an integer count of 1/Unit metres; divisions round       *)
(* towards minus infinity and square roots are integer square roots.       *)
(***************************************************************************)
EXTENDS Integers, Sequences, FiniteSets, TLC

\* ------------------------------------------------------------------ bounds

\* Fixed-point resolution: model units per metre.
Unit == 10000

\* Defined picks the curve tool may capture in one behaviour (two triples).
MaxPicks == 6

\* Entities the Points tool may add or remove in one behaviour.
MaxPointsEdits == 1

\* Largest sample count given to createCurvePoints when it is checked alone.
MaxN == 6

\* Longest point sequence given to measureCurveDistance when it is checked alone.
MaxLen == 3

\* ------------------------------------------------------- program constants

\* Samples per metre of control polygon, and the floor of the sample count.
SamplesPerMetre == 50
MinSamples == 50

\* Left clicks of the Points tool that add or remove an entity, when the
\* Points tool is checked without the curve tool.
MaxBookmarkEdits == 3

\* ------------------------------------------------------------ value spaces

\* The result of scene.pickPosition when nothing is hit (an empty tuple, so
\* that it compares with positions).
undefined == << >>

\* World positions scene.pickPosition can return (metres * Unit): three
\* collinear, evenly spaced points and two points off their line.
Positions ==
    { <<0, 0, 0>>, <<Unit, 0, 0>>, <<2 * Unit, 0, 0>>, <<Unit, Unit, 0>>,
      <<2 * Unit, 2 * Unit, 0>> }

\* The positions picked while the tools run: a point of that line and the
\* point off it, so that triples coincide, fold back or bend.
PickPositions == { <<0, 0, 0>>, <<Unit, Unit, 0>> }

\* Viewers the page may assign to the toolbox.
Viewers == { "v1", "v2" }

\* Cesium.ScreenSpaceEventType members the tools and the toolbox touch.
EventTypes ==
    { "LEFT_CLICK", "LEFT_DOWN", "LEFT_UP", "LEFT_DOUBLE_CLICK",
      "MOUSE_MOVE", "MIDDLE_CLICK", "RIGHT_CLICK" }

\* ------------------------------------------------------------- arithmetic

Max(a, b) == IF a >= b THEN a ELSE b

Abs(a) == IF a >= 0 THEN a ELSE -a

\* Largest r in lo..hi with r * r <= x (hi stays below 2^15.5, so r * r fits).
RECURSIVE SqrtSearch(_, _, _)
SqrtSearch(x, lo, hi) ==
    IF lo >= hi THEN lo
    ELSE LET mid == (lo + hi + 1) \div 2
         IN  IF mid * mid <= x THEN SqrtSearch(x, mid, hi)
                               ELSE SqrtSearch(x, lo, mid - 1)

\* Math.sqrt on a non-negative fixed-point square.
Sqrt(x) == SqrtSearch(x, 0, 46340)

\* Math.round of a length given in model units, in whole metres:
\* floor(x + 0.5).
Round(d) == (2 * d + Unit) \div (2 * Unit)

\* Cesium.Cartesian3 helpers.
Cartesian3Subtract(a, b) == << a[1] - b[1], a[2] - b[2], a[3] - b[3] >>

Cartesian3Add(a, b) == << a[1] + b[1], a[2] + b[2], a[3] + b[3] >>

Cartesian3Scale(a, k) == << a[1] * k, a[2] * k, a[3] * k >>

Cartesian3Half(a) == << a[1] \div 2, a[2] \div 2, a[3] \div 2 >>

\* Cesium.Cartesian3.distance: the Euclidean distance.
distance(a, b) ==
    LET d == Cartesian3Subtract(a, b)
    IN  Sqrt(d[1] * d[1] + d[2] * d[2] + d[3] * d[3])


\* Cesium.defined.
defined(value) == value # undefined

\* -------------------------------------------------------- the curve fitter

\* new Cesium.CatmullRomSpline({times: [0, 0.5, 1], points}): with no tangents
\* given, the end tangents are (2 p1 - p2 - p0) / 2 and (p2 - 2 p1 + p0) / 2.
CatmullRomSpline(points) ==
    [ points       |-> points,
      firstTangent |->
          Cartesian3Half(Cartesian3Subtract(
              Cartesian3Subtract(Cartesian3Scale(points[2], 2), points[3]),
              points[1])),
      lastTangent  |->
          Cartesian3Half(Cartesian3Add(
              Cartesian3Subtract(points[3], Cartesian3Scale(points[2], 2)),
              points[1])) ]

\* Mutant: a slip in the quadratic coefficient, so that the weights of the
\* two end points no longer add up to 1.
HermiteCoordinate_weightSlip(p0, p1, m0, m1, U, den) ==
    LET c3 == 2 * p0 - 2 * p1 + m0 + m1
        c2 == 3 * p1 - 2 * p0 - 2 * m0 - m1
    IN  p0 + (U * (m0 + (U * (c2 + (U * c3) \div den)) \div den)) \div den

\* One coordinate of the cubic Hermite segment from p0 to p1 with tangents
\* m0, m1 at u = U / den, in Horner form.
HermiteCoordinate(p0, p1, m0, m1, U, den) ==
    LET c3 == 2 * p0 - 2 * p1 + m0 + m1
        c2 == 3 * p1 - 3 * p0 - 2 * m0 - m1
    IN  p0 + (U * (m0 + (U * (c2 + (U * c3) \div den)) \div den)) \div den

Hermite(p0, p1, m0, m1, U, den) ==
    << HermiteCoordinate(p0[1], p1[1], m0[1], m1[1], U, den),
       HermiteCoordinate(p0[2], p1[2], m0[2], m1[2], U, den),
       HermiteCoordinate(p0[3], p1[3], m0[3], m1[3], U, den) >>

\* Mutant: every parameter is evaluated on the first segment.
evaluate_firstSegment(spline, time) ==
    Hermite(spline.points[1], spline.points[2], spline.firstTangent,
            Cartesian3Half(Cartesian3Subtract(spline.points[3], spline.points[1])),
            2 * time.num, time.den)

\* spline.evaluate(t) for t = time.num / time.den in [0, 1]: the interval
\* [0, 0.5) is the first segment, [0.5, 1] the last one; u is the position
\* of t inside its segment.
evaluate(spline, time) ==
    LET pts == spline.points
    IN  IF 2 * time.num < time.den
        THEN Hermite(pts[1], pts[2], spline.firstTangent,
                     Cartesian3Half(Cartesian3Subtract(pts[3], pts[1])),
                     2 * time.num, time.den)
        ELSE Hermite(pts[2], pts[3],
                     Cartesian3Half(Cartesian3Subtract(pts[3], pts[1])),
                     spline.lastTangent,
                     2 * time.num - time.den, time.den)

\* ------------------------------------------------------- the curve sampler

\* Mutant: the samples run up to and including t = 1.
sampleTimes_inclusive(numInterpolationPoints) ==
    [ k \in 1 .. numInterpolationPoints + 1 |->
        [ num |-> k - 1, den |-> numInterpolationPoints ] ]

\* Mutant: the samples are spread over [0, 1], the last one at t = 1.
sampleTimes_closed(numInterpolationPoints) ==
    [ k \in 1 .. numInterpolationPoints |->
        [ num |-> k - 1, den |-> Max(numInterpolationPoints - 1, 1) ] ]

\* The parameters createCurvePoints evaluates, in evaluation order:
\* Array.from({length: n}, (_, i) => i / n).
sampleTimes(numInterpolationPoints) ==
    [ k \in 1 .. numInterpolationPoints |->
        [ num |-> k - 1, den |-> numInterpolationPoints ] ]

createCurvePoints(startPoint, middlePoint, endPoint, numInterpolationPoints) ==
    LET spline == CatmullRomSpline(<< startPoint, middlePoint, endPoint >>)
        times  == sampleTimes(numInterpolationPoints)
    IN  [ k \in DOMAIN times |-> evaluate(spline, times[k]) ]

\* ------------------------------------------------- the arc-length accumulator

\* Mutant: the first segment is skipped.
reducer_skipFirst(i, arr) ==
    IF i > 2 THEN distance(arr[i - 1], arr[i]) ELSE 0

\* What the reducer (acc, point, i, arr) => i > 0 ? acc + distance(arr[i - 1],
\* point) : acc adds to acc at index i, with i counted from 1 here.
reducer(i, arr) ==
    IF i > 1 THEN distance(arr[i - 1], arr[i]) ELSE 0

\* Array.prototype.reduce with an additive reducer over the elements lo..hi:
\* the initial value plus every element's contribution (the range is halved
\* to keep the evaluation shallow; fixed-point addition is associative).
RECURSIVE reduce(_, _, _)
reduce(arr, lo, hi) ==
    IF lo > hi THEN 0
    ELSE IF lo = hi THEN reducer(lo, arr)
    ELSE LET mid == (lo + hi) \div 2
         IN  reduce(arr, lo, mid) + reduce(arr, mid + 1, hi)

\* measureCurveDistance(curvePoints): curvePoints.reduce(reducer, 0).
measureCurveDistance(curvePoints) ==
    0 + reduce(curvePoints, 1, Len(curvePoints))

\* --------------------------------------------------------- the sample count

\* Mutant: the floor of 50 samples is missing.
numInterpolationPoints_noFloor(start, middle, end) ==
    Round(distance(start, middle) + distance(middle, end)) * SamplesPerMetre

\* Math.max(Math.round(d(start, middle) + d(middle, end)) * 50, 50).
numInterpolationPoints(start, middle, end) ==
    Max(Round(distance(start, middle) + distance(middle, end))
            * SamplesPerMetre,
        MinSamples)

\* ---------------------------------------------------------------- helpers

\* helper.js: the entity options the tools hand to viewer.entities.add.  A
\* line keeps the number of its positions, a label the distance it shows.
createPointEntity(cartesian) ==
    [ id |-> 0, kind |-> "point", position |-> cartesian, value |-> 0 ]

createLineEntity(curvePoints) ==
    [ id |-> 0, kind |-> "line", position |-> undefined,
      value |-> Len(curvePoints) ]

createDistanceLabel(start, end, totalDistance) ==
    [ id |-> 0, kind |-> "label", position |-> start, value |-> totalDistance ]

\* viewer.entities.add(options): the new entity, with a fresh id.
EntityAdd(options, id) == [ options EXCEPT !.id = id ]

\* The measuring steps of handleCurveLeftClick for one triple of positions:
\* the sample count, the curve points, the line entity built from them and
\* their total distance.
measure(start, middle, end) ==
    LET n == numInterpolationPoints(start, middle, end)
        curvePoints == createCurvePoints(start, middle, end, n)
    IN  [ numInterpolationPoints |-> n,
          length |-> Len(curvePoints),
          curveLineEntity |-> createLineEntity(curvePoints),
          totalDistance |-> measureCurveDistance(curvePoints) ]

\* ------------------------------------------------------------------ state

VARIABLES
    _viewer,            \* MeasureToolbox._viewer: "none" or the viewer last stored
    promiseState,       \* viewerPromise: "pending", "resolved" (callback queued), "done"
    promiseValue,       \* the viewer the promise was resolved with
    assigned,           \* history: the viewer the page assigned last
    inputActions,       \* the shared ScreenSpaceEventHandler: event type -> action
    nameOverlay,        \* nameOverlay.style.display
    entities,           \* viewer.entities of the tools' viewer: the ids of its entities
    nextId,             \* the id of the next entity the curve tool adds
    curveImpl,          \* which ThreePointsCurve file is loaded
    pointEntities,      \* ThreePointsCurve.pointEntities: its entities, in insertion order
    lineEntities,       \* ThreePointsCurve.lineEntities: the ids of its entities
    labelEntities,      \* ThreePointsCurve.labelEntities: the ids of its entities
    pointsPointEntities,\* Points.pointEntities: the ids of its entities
    pointsAdded,        \* history: entities the Points tool has added
    pointsRemoved,      \* history: entities the Points tool has removed
    picks,              \* history: ids of the points the curve tool captured, in order
    stale,              \* history: how many of pointEntities were captured before the
                        \*          last activation of a tool
    numCalls,           \* history: calls of createCurvePoints
    lastCall,           \* history: the last call of createCurvePoints and its results
    linesAdded,         \* history: curve lines added to viewer.entities
    labelsAdded,        \* history: distance labels added to viewer.entities
    lastEvent,          \* history: the click or button handler that ran last, and
                        \*          what its pick returned
    measureCache,       \* measure for every triple of pick positions, computed once
    fnIn,               \* a function checked alone: its arguments
    fnOut               \* a function checked alone: its result

toolboxVars == << _viewer, promiseState, promiseValue, assigned >>
curveVars == << pointEntities, lineEntities, labelEntities >>
pointsVars == << pointsPointEntities, pointsAdded, pointsRemoved >>
callVars == << picks, numCalls, lastCall, linesAdded, labelsAdded >>
fnVars == << measureCache, fnIn, fnOut >>
pageVars ==
    << toolboxVars, inputActions, nameOverlay, entities, nextId, curveImpl,
       curveVars, pointsVars, callVars, stale, lastEvent, measureCache >>
vars ==
    << toolboxVars, inputActions, nameOverlay, entities, nextId, curveImpl,
       curveVars, pointsVars, callVars, stale, lastEvent, fnVars >>

\* The two ThreePointsCurve files: ThreePointsCurve.js keeps its entities in
\* Cesium.EntityCollection objects, threePointsCurve.js in arrays.
CurveImpls == { "EntityCollection", "Array" }

NoCall ==
    [ points |-> << >>, start |-> undefined, middle |-> undefined,
      end |-> undefined, captured |-> 0,
      numInterpolationPoints |-> 0, length |-> 0, totalDistance |-> 0 ]

FnIdle == [ op |-> "none", points |-> << >>, n |-> 0 ]

FnNone ==
    [ done |-> FALSE, points |-> << >>, times |-> << >>, n |-> 0, total |-> 0,
      totals |-> << >> ]

\* The tools right after their construction (empty collections, nothing
\* drawn), whichever ThreePointsCurve file is the one loaded.
ToolsInit ==
    /\ nameOverlay = "none"
    /\ entities = {}
    /\ nextId = 1
    /\ curveImpl \in CurveImpls
    /\ pointEntities = << >>
    /\ lineEntities = << >>
    /\ labelEntities = << >>
    /\ pointsPointEntities = {}
    /\ pointsAdded = 0
    /\ pointsRemoved = 0
    /\ picks = << >>
    /\ stale = 0
    /\ numCalls = 0
    /\ lastCall = NoCall
    /\ linesAdded = 0
    /\ labelsAdded = 0
    /\ lastEvent = [ kind |-> "constructor", input |-> "" ]
    /\ measureCache =
           [ points \in PickPositions \X PickPositions \X PickPositions |->
               measure(points[1], points[2], points[3]) ]

\* clearAll(viewer, handler): RIGHT_CLICK removes every entity of the viewer.
clearAll(actions) == [ actions EXCEPT !["RIGHT_CLICK"] = "clear" ]

\* The page once the toolbox is set up (the callback of viewerPromise has run
\* with the viewer "v1", so clearAll has registered RIGHT_CLICK) and the two
\* tools are constructed on its viewer and handler.
Init ==
    /\ _viewer = "v1"
    /\ promiseState = "done"
    /\ promiseValue = "v1"
    /\ assigned = "v1"
    /\ inputActions = clearAll([ t \in EventTypes |-> "none" ])
    /\ ToolsInit
    /\ fnIn = FnIdle
    /\ fnOut = FnNone

\* ------------------------------------------------------ the toolbox element

\* set viewer(viewer): store the viewer and resolve the promise; resolving a
\* promise that is already resolved does nothing.
SetViewer(viewer) ==
    /\ _viewer' = viewer
    /\ assigned' = viewer
    /\ IF promiseState = "pending"
       THEN promiseState' = "resolved" /\ promiseValue' = viewer
       ELSE UNCHANGED << promiseState, promiseValue >>
    /\ lastEvent' = [ kind |-> "setViewer", input |-> "" ]
    /\ UNCHANGED << inputActions, nameOverlay, entities, nextId, curveImpl,
                    curveVars, pointsVars, callVars, stale, fnVars >>

\* The callback of viewerPromise.then: it assigns this.viewer (the setter
\* again), creates the handler and runs buttonsSetup, which creates the hidden
\* overlay and calls clearAll.
ViewerPromiseThen ==
    /\ promiseState = "resolved"
    /\ promiseState' = "done"
    /\ _viewer' = promiseValue
    /\ inputActions' = clearAll([ t \in EventTypes |-> "none" ])
    /\ nameOverlay' = "none"
    /\ lastEvent' = [ kind |-> "viewerPromiseThen", input |-> "" ]
    /\ UNCHANGED << promiseValue, assigned, entities, nextId, curveImpl,
                    curveVars, pointsVars, callVars, stale, fnVars >>

\* get viewer(): return this._viewer.
getViewer == _viewer

\* The RIGHT_CLICK action clearAll registered: viewer.entities.removeAll().
RightClick ==
    /\ inputActions["RIGHT_CLICK"] = "clear"
    /\ entities' = {}
    /\ lastEvent' = [ kind |-> "rightClick", input |-> "" ]
    /\ UNCHANGED << toolboxVars, inputActions, nameOverlay, nextId, curveImpl,
                    curveVars, pointsVars, callVars, stale, fnVars >>

\* ------------------------------------------------------------ tool buttons

\* Mutant: the action of every event type is removed.
removeAllInputActions_everything(actions) == [ t \in EventTypes |-> "none" ]

\* removeAllInputActions: the six event types the tools remove.
removeAllInputActions(actions) ==
    [ t \in EventTypes |->
        IF t \in { "LEFT_CLICK", "LEFT_DOWN", "LEFT_UP", "LEFT_DOUBLE_CLICK",
                   "MOUSE_MOVE", "MIDDLE_CLICK" }
        THEN "none" ELSE actions[t] ]

\* ThreePointsCurve.setupInputActions, run by the Curve button.  Only
\* ThreePointsCurve.js removes the registered actions first.
setupInputActions ==
    /\ promiseState = "done"
    /\ inputActions' =
           [ (IF curveImpl = "EntityCollection"
              THEN removeAllInputActions(inputActions) ELSE inputActions)
             EXCEPT !["LEFT_CLICK"] = "curve", !["MOUSE_MOVE"] = "curve" ]
    /\ stale' = Len(pointEntities)
    /\ lastEvent' = [ kind |-> "setupInputActions", input |-> "" ]
    /\ UNCHANGED << toolboxVars, nameOverlay, entities, nextId, curveImpl,
                    curveVars, pointsVars, callVars, fnVars >>

\* Mutant: the Points button registers the click action only.
setupInputAction_clickOnly ==
    /\ promiseState = "done"
    /\ inputActions' =
           [ removeAllInputActions(inputActions)
             EXCEPT !["LEFT_CLICK"] = "points" ]
    /\ stale' = Len(pointEntities)
    /\ lastEvent' = [ kind |-> "setupInputAction", input |-> "" ]
    /\ UNCHANGED << toolboxVars, nameOverlay, entities, nextId, curveImpl,
                    curveVars, pointsVars, callVars, fnVars >>

\* Points.setupInputAction, run by the Points button.
setupInputAction ==
    /\ promiseState = "done"
    /\ inputActions' =
           [ removeAllInputActions(inputActions)
             EXCEPT !["LEFT_CLICK"] = "points", !["MOUSE_MOVE"] = "points" ]
    /\ stale' = Len(pointEntities)
    /\ lastEvent' = [ kind |-> "setupInputAction", input |-> "" ]
    /\ UNCHANGED << toolboxVars, nameOverlay, entities, nextId, curveImpl,
                    curveVars, pointsVars, callVars, fnVars >>

\* ----------------------------------------------------------- the curve tool

\* Mutant: the check of the pick position is missing.
positionDefined_unchecked(cartesian) == TRUE

\* if (!Cesium.defined(cartesian)) return;
positionDefined(cartesian) == defined(cartesian)

\* Mutant: the measurement starts one point late.
tripleCaptured_late(values) == Len(values) > 3

\* if (pointEntities.values.length === 3) / if (pointEntities.length === 3).
tripleCaptured(values) == Len(values) = 3

\* const [start, middle, end] = values.map((p) => p.position.getValue(now)).
controlPoints(values) ==
    << values[1].position, values[2].position, values[3].position >>

\* Mutant: the capture is not reset after a measurement.
resetPointEntities_kept(values) == values

\* Mutant: the reset keeps the end point as the start of the next curve.
resetPointEntities_chained(values) == << values[Len(values)] >>

\* pointEntities.removeAll() / pointEntities.length = 0.
resetPointEntities(values) == << >>

\* lineEntities and labelEntities after a measurement: ThreePointsCurve.js
\* empties both collections, threePointsCurve.js keeps every line and label.
keptAfterMeasure(collection, entity) ==
    IF curveImpl = "EntityCollection" THEN << >>
    ELSE Append(collection, entity.id)

\* handleCurveLeftClick(movement), cartesian being
\* viewer.scene.pickPosition(movement.position).
handleCurveLeftClick(cartesian) ==
    IF ~ positionDefined(cartesian)
    THEN UNCHANGED << entities, nextId, curveVars, callVars, stale >>
    ELSE LET pointEntity == EntityAdd(createPointEntity(cartesian), nextId)
             values == Append(pointEntities, pointEntity)
         IN  /\ picks' = Append(picks, pointEntity.id)
             /\ IF tripleCaptured(values)
                THEN LET points == controlPoints(values)
                         start == points[1]
                         middle == points[2]
                         end == points[3]
                         measured == measureCache[points]
                         curveLineEntity ==
                             EntityAdd(measured.curveLineEntity, nextId + 1)
                         totalDistance == measured.totalDistance
                         labelEntity ==
                             EntityAdd(createDistanceLabel(start, end, totalDistance),
                                       nextId + 2)
                     IN  /\ entities' =
                                entities \cup { pointEntity.id, curveLineEntity.id,
                                                labelEntity.id }
                         /\ nextId' = nextId + 3
                         /\ pointEntities' = resetPointEntities(values)
                         /\ lineEntities' = keptAfterMeasure(lineEntities, curveLineEntity)
                         /\ labelEntities' = keptAfterMeasure(labelEntities, labelEntity)
                         /\ numCalls' = numCalls + 1
                         /\ linesAdded' = linesAdded + 1
                         /\ labelsAdded' = labelsAdded + 1
                         /\ lastCall' =
                                [ points |-> values, start |-> start,
                                  middle |-> middle, end |-> end,
                                  captured |-> Len(values),
                                  numInterpolationPoints |->
                                      measured.numInterpolationPoints,
                                  length |-> measured.length,
                                  totalDistance |-> totalDistance ]
                         /\ stale' = 0
                ELSE /\ entities' = entities \cup { pointEntity.id }
                     /\ nextId' = nextId + 1
                     /\ pointEntities' = values
                     /\ UNCHANGED << lineEntities, labelEntities, numCalls,
                                     lastCall, linesAdded, labelsAdded, stale >>

\* A left click while the curve tool owns LEFT_CLICK.
CurveLeftClick ==
    \E cartesian \in PickPositions \cup { undefined } :
        /\ inputActions["LEFT_CLICK"] = "curve"
        /\ defined(cartesian) => Len(picks) < MaxPicks
        /\ handleCurveLeftClick(cartesian)
        /\ lastEvent' =
               [ kind  |-> "handleCurveLeftClick",
                 input |-> IF defined(cartesian) THEN "position" ELSE "undefined" ]
        /\ UNCHANGED << toolboxVars, inputActions, nameOverlay, curveImpl,
                        pointsVars, fnVars >>

\* updateMovingDot / the cssText assignment: the overlay is shown at the
\* projected position.
updateMovingDot == "block"

\* handleCurveMouseMove(movement): pickedObject is scene.pick(endPosition),
\* cartesian is scene.pickPosition(endPosition).
handleCurveMouseMove(pickedObject, cartesian) ==
    nameOverlay' =
        IF pickedObject /\ defined(cartesian) THEN updateMovingDot
        ELSE nameOverlay

\* Mutant: the MOUSE_MOVE action runs the click handler as well.
CurveMouseMove_clickHandler ==
    \E cartesian \in PickPositions :
        /\ inputActions["MOUSE_MOVE"] = "curve"
        /\ Len(picks) < MaxPicks
        /\ handleCurveMouseMove(TRUE, cartesian)
        /\ handleCurveLeftClick(cartesian)
        /\ UNCHANGED << toolboxVars, inputActions, curveImpl, pointsVars,
                        lastEvent, fnVars >>

\* A mouse move while the curve tool owns MOUSE_MOVE.
CurveMouseMove ==
    \E pickedObject \in BOOLEAN, cartesian \in PickPositions \cup { undefined } :
        /\ inputActions["MOUSE_MOVE"] = "curve"
        /\ handleCurveMouseMove(pickedObject, cartesian)
        /\ UNCHANGED << toolboxVars, inputActions, entities, nextId, curveImpl,
                        curveVars, pointsVars, callVars, stale, lastEvent,
                        fnVars >>

\* ---------------------------------------------------------- the Points tool

\* Entity ids are GUIDs; the ones of the Points tool's entities are numbered
\* from here on, the ones of the curve tool's from 1.
BookmarkIds == 100

\* What scene.pick returns with an entity under the cursor is that entity;
\* 0 stands for no object, or an object that is no entity.
NoObject == 0

\* Mutant: the picked entity is removed from the viewer only.
handlePointsLeftClick_keepsBookmark(picked, cartesian) ==
    IF picked # NoObject
    THEN /\ entities' = entities \ { picked }
         /\ pointsRemoved' = pointsRemoved + 1
         /\ UNCHANGED << pointsPointEntities, pointsAdded >>
    ELSE IF defined(cartesian)
    THEN /\ entities' = entities \cup { BookmarkIds + pointsAdded }
         /\ pointsPointEntities' = pointsPointEntities \cup { BookmarkIds + pointsAdded }
         /\ pointsAdded' = pointsAdded + 1
         /\ UNCHANGED pointsRemoved
    ELSE UNCHANGED << entities, pointsVars >>

\* handlePointsLeftClick(movement): picked is scene.pick(movement.position),
\* cartesian is scene.pickPosition(movement.position).
handlePointsLeftClick(picked, cartesian) ==
    IF picked # NoObject
    THEN LET entityToRemove == { id \in entities : id = picked }
         IN  /\ entities' = entities \ entityToRemove
             /\ pointsPointEntities' = pointsPointEntities \ entityToRemove
             /\ pointsRemoved' = pointsRemoved + 1
             /\ UNCHANGED pointsAdded
    ELSE IF defined(cartesian)
    THEN LET pointEntity ==
                 EntityAdd(createPointEntity(cartesian), BookmarkIds + pointsAdded)
         IN  /\ entities' = entities \cup { pointEntity.id }
             /\ pointsPointEntities' = pointsPointEntities \cup { pointEntity.id }
             /\ pointsAdded' = pointsAdded + 1
             /\ UNCHANGED pointsRemoved
    ELSE UNCHANGED << entities, pointsVars >>

\* A left click while the Points tool owns LEFT_CLICK, as long as fewer than
\* maxEdits clicks have added or removed an entity.
PointsLeftClickWithin(maxEdits) ==
    \E picked \in entities \cup { NoObject },
       cartesian \in PickPositions \cup { undefined } :
        /\ inputActions["LEFT_CLICK"] = "points"
        /\ (picked # NoObject \/ defined(cartesian))
               => pointsAdded + pointsRemoved < maxEdits
        /\ handlePointsLeftClick(picked, cartesian)
        /\ lastEvent' =
               [ kind  |-> "handlePointsLeftClick",
                 input |-> IF picked # NoObject THEN "entity"
                           ELSE IF defined(cartesian) THEN "position"
                           ELSE "undefined" ]
        /\ UNCHANGED << toolboxVars, inputActions, nameOverlay, nextId,
                        curveImpl, curveVars, callVars, stale, fnVars >>

PointsLeftClick == PointsLeftClickWithin(MaxPointsEdits)

\* handlePointsMouseMove(movement).
handlePointsMouseMove(pickedObject, cartesian) ==
    nameOverlay' =
        IF pickedObject
        THEN IF defined(cartesian) THEN updateMovingDot ELSE nameOverlay
        ELSE "none"

\* A mouse move while the Points tool owns MOUSE_MOVE.
PointsMouseMove ==
    \E pickedObject \in BOOLEAN, cartesian \in PickPositions \cup { undefined } :
        /\ inputActions["MOUSE_MOVE"] = "points"
        /\ handlePointsMouseMove(pickedObject, cartesian)
        /\ UNCHANGED << toolboxVars, inputActions, entities, nextId, curveImpl,
                        curveVars, pointsVars, callVars, stale, lastEvent,
                        fnVars >>

\* ------------------------------------------------------------ specification

Next ==
    \/ RightClick
    \/ setupInputActions
    \/ setupInputAction
    \/ CurveLeftClick
    \/ CurveMouseMove
    \/ PointsLeftClick
    \/ PointsMouseMove

Spec == Init /\ [][Next]_vars

\* -------------------------------------------- the toolbox element on its own

\* The page after `new MeasureToolbox()`: the promise is pending and no
\* handler exists yet.
ToolboxInit ==
    /\ _viewer = "none"
    /\ promiseState = "pending"
    /\ promiseValue = "none"
    /\ assigned = "none"
    /\ inputActions = [ t \in EventTypes |-> "none" ]
    /\ ToolsInit
    /\ fnIn = FnIdle
    /\ fnOut = FnNone

\* The page assigns viewers at any time; once the callback has run, the
\* buttons, the right click and the mouse moves are there as well.
ToolboxNext ==
    \/ \E viewer \in Viewers : SetViewer(viewer)
    \/ ViewerPromiseThen
    \/ RightClick
    \/ setupInputActions
    \/ setupInputAction
    \/ CurveMouseMove
    \/ PointsMouseMove

ToolboxSpec == ToolboxInit /\ [][ToolboxNext]_vars

\* ------------------------------------------------ the Points tool on its own

BookmarkLeftClick == PointsLeftClickWithin(MaxBookmarkEdits)

PointsNext ==
    \/ RightClick
    \/ setupInputAction
    \/ BookmarkLeftClick
    \/ PointsMouseMove

PointsSpec == Init /\ [][PointsNext]_vars

\* ------------------------------------------- the numerical core on its own

\* Every sequence of at most n positions.
SeqUpTo(n) == UNION { [ 1 .. k -> Positions ] : k \in 0 .. n }

\* The calls checked: createCurvePoints with every triple and every sample
\* count up to MaxN, measureCurveDistance with every sequence of up to MaxLen
\* points, and the handler's measuring steps with every triple.
FnInputs ==
    { [ op |-> "createCurvePoints", points |-> << a, b, c >>, n |-> n ] :
        a \in Positions, b \in Positions, c \in Positions, n \in 1 .. MaxN }
    \cup { [ op |-> "measureCurveDistance", points |-> points, n |-> 0 ] :
             points \in SeqUpTo(MaxLen) }
    \cup { [ op |-> "measure", points |-> << a, b, c >>, n |-> 0 ] :
             a \in Positions, b \in Positions, c \in Positions }
    \cup { [ op |-> "evaluate", points |-> << a, b, c >>, n |-> n ] :
             a \in Positions, b \in Positions, c \in Positions, n \in 0 .. 2 }
    \cup { [ op |-> "sampleLengths", points |-> << a, b, c >>, n |-> n ] :
             a \in Positions, b \in Positions, c \in Positions, n \in 1 .. MaxN }

FnInit ==
    /\ _viewer = "v1"
    /\ promiseState = "done"
    /\ promiseValue = "v1"
    /\ assigned = "v1"
    /\ inputActions = clearAll([ t \in EventTypes |-> "none" ])
    /\ ToolsInit
    /\ fnIn \in FnInputs
    /\ fnOut = FnNone

ApplyCreateCurvePoints ==
    /\ fnIn.op = "createCurvePoints"
    /\ ~ fnOut.done
    /\ fnOut' =
           [ done   |-> TRUE,
             points |-> createCurvePoints(fnIn.points[1], fnIn.points[2],
                                          fnIn.points[3], fnIn.n),
             times  |-> sampleTimes(fnIn.n),
             n      |-> fnIn.n,
             total  |-> 0,
             totals |-> << >> ]
    /\ UNCHANGED << pageVars, fnIn >>

ApplyMeasureCurveDistance ==
    /\ fnIn.op = "measureCurveDistance"
    /\ ~ fnOut.done
    /\ fnOut' =
           [ done   |-> TRUE,
             points |-> fnIn.points,
             times  |-> << >>,
             n      |-> 0,
             total  |-> measureCurveDistance(fnIn.points),
             totals |-> << >> ]
    /\ UNCHANGED << pageVars, fnIn >>

ApplyMeasure ==
    /\ fnIn.op = "measure"
    /\ ~ fnOut.done
    /\ LET measured == measure(fnIn.points[1], fnIn.points[2], fnIn.points[3])
       IN  fnOut' =
               [ done   |-> TRUE,
                 points |-> << >>,
                 times  |-> << >>,
                 n      |-> measured.numInterpolationPoints,
                 total  |-> measured.totalDistance,
                 totals |-> << >> ]
    /\ UNCHANGED << pageVars, fnIn >>

\* spline.evaluate(t) of the spline createCurvePoints builds, at t = 0, 1/2
\* or 1 (fnIn.n halves).
ApplyEvaluate ==
    /\ fnIn.op = "evaluate"
    /\ ~ fnOut.done
    /\ fnOut' =
           [ done   |-> TRUE,
             points |-> << evaluate(CatmullRomSpline(fnIn.points),
                                    [ num |-> fnIn.n, den |-> 2 ]) >>,
             times  |-> << [ num |-> fnIn.n, den |-> 2 ] >>,
             n      |-> fnIn.n,
             total  |-> 0,
             totals |-> << >> ]
    /\ UNCHANGED << pageVars, fnIn >>

\* measureCurveDistance(createCurvePoints(start, middle, end, k)) for every
\* sample count k up to fnIn.n, with the curve points of the last one.
ApplySampleLengths ==
    /\ fnIn.op = "sampleLengths"
    /\ ~ fnOut.done
    /\ LET curvePoints(k) ==
               createCurvePoints(fnIn.points[1], fnIn.points[2],
                                 fnIn.points[3], k)
       IN  fnOut' =
               [ done   |-> TRUE,
                 points |-> curvePoints(fnIn.n),
                 times  |-> << >>,
                 n      |-> fnIn.n,
                 total  |-> measureCurveDistance(curvePoints(fnIn.n)),
                 totals |-> [ k \in 1 .. fnIn.n |->
                                measureCurveDistance(curvePoints(k)) ] ]
    /\ UNCHANGED << pageVars, fnIn >>

FnNext ==
    \/ ApplyCreateCurvePoints
    \/ ApplyMeasureCurveDistance
    \/ ApplyMeasure
    \/ ApplyEvaluate
    \/ ApplySampleLengths

FnSpec == FnInit /\ [][FnNext]_vars

\* ------------------------------------------- properties of the curve tool

\* The ids of a sequence of entities, in order.
Ids(values) == [ i \in 1 .. Len(values) |-> values[i].id ]

\* The last handler to run was a curve left click with a defined position
\* that completed a triple.
TripleJustCompleted ==
    /\ lastEvent = [ kind |-> "handleCurveLeftClick", input |-> "position" ]
    /\ Len(picks) > 0
    /\ Len(picks) % 3 = 0

\* C1: the k-th curve computation receives the defined picks 3k-2, 3k-1 and
\* 3k, in that order, as (start, middle, end); the points captured and not
\* yet measured are exactly the picks after the last computed triple, and
\* right after a completed triple pointEntities is empty, so no pick is used
\* in two computations.
C1_TriplesInPickOrder ==
    /\ Len(picks) >= 3 * numCalls
    /\ numCalls > 0 =>
          /\ Len(lastCall.points) = 3
          /\ Ids(lastCall.points) =
                << picks[3 * numCalls - 2], picks[3 * numCalls - 1],
                   picks[3 * numCalls] >>
          /\ << lastCall.start, lastCall.middle, lastCall.end >> =
                << lastCall.points[1].position, lastCall.points[2].position,
                   lastCall.points[3].position >>
    /\ Ids(pointEntities) = SubSeq(picks, 3 * numCalls + 1, Len(picks))
    /\ TripleJustCompleted => pointEntities = << >>

\* A second triple has just been measured, from two different positions.
C1_Witness ==
    /\ numCalls = 2
    /\ TripleJustCompleted
    /\ lastCall.start # lastCall.end
    /\ lastCall.middle # lastCall.end

\* C2: a curve left click whose pick position is undefined leaves
\* pointEntities, lineEntities, labelEntities and viewer.entities as they
\* were, captures no pick and calls neither createCurvePoints nor
\* measureCurveDistance.
C2_UndefinedPickChangesNothing ==
    [][ lastEvent' = [ kind |-> "handleCurveLeftClick", input |-> "undefined" ]
            => UNCHANGED << pointEntities, lineEntities, labelEntities,
                            entities, picks, numCalls, lastCall >> ]_vars

\* An undefined pick arrived while two points were captured and drawn.
C2_Witness ==
    /\ lastEvent = [ kind |-> "handleCurveLeftClick", input |-> "undefined" ]
    /\ Len(pointEntities) = 2
    /\ entities # {}

\* C3: a partial capture is abandoned when a tool is activated: every curve
\* computation starts with no point captured before the last activation.
C3_PartialCaptureAbandoned ==
    [][ numCalls' # numCalls => stale = 0 ]_vars

\* C4: createCurvePoints is called only by a left click with a defined
\* position that brings the captured points from 2 to 3, it is called with
\* exactly 3 captured points, and pointEntities never holds more than 3.
C4_FitterOnlyOnThirdPoint ==
    /\ [](Len(pointEntities) <= 3 /\ (numCalls > 0 => lastCall.captured = 3))
    /\ [][ numCalls' # numCalls =>
              /\ numCalls' = numCalls + 1
              /\ lastEvent' = [ kind |-> "handleCurveLeftClick", input |-> "position" ]
              /\ Len(pointEntities) = 2
              /\ Len(picks') = Len(picks) + 1
              /\ lastCall'.captured = 3 ]_vars

\* One triple was measured and two points of the next are captured, with no
\* further call of createCurvePoints.
C4_Witness ==
    /\ numCalls = 1
    /\ lastCall.captured = 3
    /\ Len(pointEntities) = 2
    /\ Len(picks) = 5

\* C5: between events the capture count is 0, 1 or 2, and the curve lines
\* added, the distance labels added and the calls of createCurvePoints all
\* equal the number of completed triples.
C5_ComputationRunsToCompletion ==
    /\ Len(pointEntities) \in { 0, 1, 2 }
    /\ numCalls = Len(picks) \div 3
    /\ linesAdded = Len(picks) \div 3
    /\ labelsAdded = Len(picks) \div 3

\* Two triples are complete, each with its line and its label, and a right
\* click has emptied the viewer since.
C5_Witness ==
    /\ Len(picks) = 6
    /\ linesAdded = 2
    /\ labelsAdded = 2
    /\ lastEvent.kind = "rightClick"

\* ---------------------------------------- properties of the numerical core

\* C6: the sample count of a triple is max(round(d) * 50, 50), d being
\* dist(start, middle) + dist(middle, end) and round rounding halves up; it
\* is at least 50 and a multiple of 50.
C6_SampleCount ==
    (fnOut.done /\ fnIn.op = "measure") =>
        LET d == distance(fnIn.points[1], fnIn.points[2])
                 + distance(fnIn.points[2], fnIn.points[3])
        IN  /\ fnOut.n >= 50
            /\ fnOut.n % 50 = 0
            /\ \E k \in 0 .. d \div Unit + 1 :
                   /\ (2 * k - 1) * Unit <= 2 * d
                   /\ 2 * d < (2 * k + 1) * Unit
                   /\ fnOut.n = IF 50 * k > 50 THEN 50 * k ELSE 50

\* The three points coincide and the sample count is the floor.
C6_Witness ==
    /\ fnOut.done
    /\ fnIn.op = "measure"
    /\ fnIn.points[1] = fnIn.points[2]
    /\ fnIn.points[2] = fnIn.points[3]
    /\ fnOut.n = 50

\* C7: createCurvePoints(start, middle, end, n) returns a sequence of exactly
\* n points.
C7_ExactlyNPoints ==
    (fnOut.done /\ fnIn.op = "createCurvePoints") =>
        /\ DOMAIN fnOut.points = 1 .. fnIn.n
        /\ Len(fnOut.points) = fnIn.n
        /\ \A k \in 1 .. fnIn.n : Len(fnOut.points[k]) = 3

\* A curve through three different points was sampled 3 times.
C7_Witness ==
    /\ fnOut.done
    /\ fnIn.op = "createCurvePoints"
    /\ fnIn.n = 3
    /\ fnIn.points[1] # fnIn.points[2]
    /\ fnIn.points[2] # fnIn.points[3]
    /\ Len(fnOut.points) = 3

\* C8: the spline is evaluated at i / n for i = 0 .. n-1 in increasing order:
\* every parameter is in [0, 1), the first is 0 and none is 1.
C8_ParametersInUnitInterval ==
    (fnOut.done /\ fnIn.op = "createCurvePoints") =>
        /\ Len(fnOut.times) = fnIn.n
        /\ \A k \in 1 .. Len(fnOut.times) :
              /\ fnOut.times[k].den = fnIn.n
              /\ fnOut.times[k].num = k - 1
              /\ 0 <= fnOut.times[k].num
              /\ fnOut.times[k].num < fnOut.times[k].den
        /\ fnOut.times[1].num = 0
        /\ fnOut.points =
              [ k \in 1 .. Len(fnOut.times) |->
                  evaluate(CatmullRomSpline(fnIn.points), fnOut.times[k]) ]

\* A curve was sampled at 0, 1/2: the second sample is the middle point.
C8_Witness ==
    /\ fnOut.done
    /\ fnIn.op = "createCurvePoints"
    /\ fnIn.n = 2
    /\ fnOut.times = << [ num |-> 0, den |-> 2 ], [ num |-> 1, den |-> 2 ] >>
    /\ fnOut.points[1] = fnIn.points[1]
    /\ fnOut.points[2] = fnIn.points[2]
    /\ fnIn.points[1] # fnIn.points[2]

\* The sum of the distances between consecutive points, from the definition.
RECURSIVE PathLength(_)
PathLength(points) ==
    IF Len(points) <= 1 THEN 0
    ELSE PathLength(SubSeq(points, 1, Len(points) - 1))
         + distance(points[Len(points) - 1], points[Len(points)])

\* C9: measureCurveDistance(points) is the sum of the distances between
\* consecutive points, 0 for 0 or 1 points, and never negative.
C9_SumOfConsecutiveDistances ==
    (fnOut.done /\ fnIn.op = "measureCurveDistance") =>
        /\ fnOut.total = PathLength(fnIn.points)
        /\ Len(fnIn.points) <= 1 => fnOut.total = 0
        /\ fnOut.total >= 0

\* Three points along the x axis were measured: 1 + 1 metres.
C9_Witness ==
    /\ fnOut.done
    /\ fnIn.op = "measureCurveDistance"
    /\ fnIn.points = << << 0, 0, 0 >>, << Unit, 0, 0 >>, << 2 * Unit, 0, 0 >> >>
    /\ fnOut.total = 2 * Unit

\* C10: the length of the sampled curve through a, b, c, with the sample
\* count the caller computes, is at least dist(a, c).
C10_LengthAtLeastChord ==
    (fnOut.done /\ fnIn.op = "measure") =>
        fnOut.total >= distance(fnIn.points[1], fnIn.points[3])

\* C11: the fitted curve passes through its control points: it evaluates to
\* a at t = 0, to b at t = 1/2 and to c at t = 1; the first sample of
\* createCurvePoints is a and, for even n, sample number n/2 (counted from
\* 0) is b.
C11_CurveThroughControlPoints ==
    /\ (fnOut.done /\ fnIn.op = "evaluate") =>
          fnOut.points[1] = fnIn.points[fnIn.n + 1]
    /\ (fnOut.done /\ fnIn.op = "createCurvePoints") =>
          /\ fnOut.points[1] = fnIn.points[1]
          /\ fnIn.n % 2 = 0 => fnOut.points[fnIn.n \div 2 + 1] = fnIn.points[2]

\* A curve that bends was evaluated at t = 1 and gave its end point.
C11_Witness ==
    /\ fnOut.done
    /\ fnIn.op = "evaluate"
    /\ fnIn.n = 2
    /\ fnIn.points = << << 0, 0, 0 >>, << Unit, Unit, 0 >>, << 2 * Unit, 0, 0 >> >>
    /\ fnOut.points = << << 2 * Unit, 0, 0 >> >>

Collinear(a, b, c) ==
    LET u == Cartesian3Subtract(b, a)
        v == Cartesian3Subtract(c, a)
    IN  /\ u[2] * v[3] = u[3] * v[2]
        /\ u[3] * v[1] = u[1] * v[3]
        /\ u[1] * v[2] = u[2] * v[1]

\* C13: for three points that are not collinear, the measured length does
\* not decrease when the sample count grows.
C13_LengthNonDecreasingInSamples ==
    (fnOut.done /\ fnIn.op = "sampleLengths"
        /\ ~ Collinear(fnIn.points[1], fnIn.points[2], fnIn.points[3])) =>
        \A n1 \in 1 .. fnIn.n, n2 \in 1 .. fnIn.n :
            n1 <= n2 => fnOut.totals[n1] <= fnOut.totals[n2]

\* ------------------------------------- properties of the shared handler

\* The last button pressed ran removeAllInputActions: the Points button
\* always does, the Curve button in ThreePointsCurve.js.
RemovedAllInputActions ==
    \/ lastEvent.kind = "setupInputAction"
    \/ lastEvent.kind = "setupInputActions" /\ curveImpl = "EntityCollection"

\* C14: after removeAllInputActions no input action of any event type is
\* left on the shared handler, but for the two the button registers next.
C14_NoInputActionRemains ==
    RemovedAllInputActions =>
        \A t \in EventTypes \ { "LEFT_CLICK", "MOUSE_MOVE" } :
            inputActions[t] = "none"

C16_ActiveToolOwnsBothActions ==
    /\ [](/\ inputActions["LEFT_CLICK"] = inputActions["MOUSE_MOVE"]
          /\ lastEvent.kind = "setupInputActions" =>
                inputActions["LEFT_CLICK"] = "curve"
          /\ lastEvent.kind = "setupInputAction" =>
                inputActions["LEFT_CLICK"] = "points"
          /\ lastEvent.kind = "handleCurveLeftClick" =>
                inputActions["LEFT_CLICK"] = "curve"
          /\ lastEvent.kind = "handlePointsLeftClick" =>
                inputActions["LEFT_CLICK"] = "points")
    /\ [][ /\ inputActions' # inputActions =>
                lastEvent'.kind \in { "setupInputActions", "setupInputAction" }
           /\ lastEvent'.kind = "handlePointsLeftClick" =>
                UNCHANGED << pointEntities, lineEntities, labelEntities,
                             picks, numCalls >>
           /\ lastEvent'.kind = "handleCurveLeftClick" =>
                UNCHANGED << pointsPointEntities, pointsAdded, pointsRemoved >>
         ]_vars

\* With one point captured by the curve tool, a click in points mode added a
\* bookmark and the capture still holds that one point.
C16_Witness ==
    /\ lastEvent = [ kind |-> "handlePointsLeftClick", input |-> "position" ]
    /\ pointsAdded = 1
    /\ Len(pointEntities) = 1
    /\ inputActions["MOUSE_MOVE"] = "points"

\* -------------------------------------------- properties of the Points tool

\* A step that is a left click of the Points tool: mouse moves keep
\* lastEvent but change the overlay.
PointsClickStep(input) ==
    /\ lastEvent' = [ kind |-> "handlePointsLeftClick", input |-> input ]
    /\ nameOverlay' = nameOverlay

\* C17: a points-mode click on an existing entity removes it from
\* viewer.entities and from the Points tool's pointEntities and adds
\* nothing; a click on no entity with a defined position adds one new point
\* to both; a click on no entity with an undefined position changes neither.
C17_PointsClickAddsOrRemovesOne ==
    [][ /\ PointsClickStep("entity") =>
              \E id \in entities :
                  /\ entities' = entities \ { id }
                  /\ pointsPointEntities' = pointsPointEntities \ { id }
        /\ PointsClickStep("position") =>
              \E id \in entities' \ (entities \cup pointsPointEntities) :
                  /\ entities' = entities \cup { id }
                  /\ pointsPointEntities' = pointsPointEntities \cup { id }
        /\ PointsClickStep("undefined") =>
              UNCHANGED << entities, pointsPointEntities >>
      ]_vars

\* Two bookmarks were added and one of them was removed by a click on it.
C17_Witness ==
    /\ lastEvent = [ kind |-> "handlePointsLeftClick", input |-> "entity" ]
    /\ pointsAdded = 2
    /\ pointsRemoved = 1
    /\ Cardinality(pointsPointEntities) = 1
    /\ entities = pointsPointEntities

\* C18: every entity in the curve tool's pointEntities and in the Points
\* tool's pointEntities is in viewer.entities.
C18_CapturedPointsAreDisplayed ==
    /\ \A i \in 1 .. Len(pointEntities) : pointEntities[i].id \in entities
    /\ pointsPointEntities \subseteq entities

\* C19: a mouse move changes nothing but the overlay: a step that changes
\* the overlay leaves the collections of both tools, viewer.entities, the
\* input actions and the measured triples as they were.
C19_MouseMoveOnlyMovesOverlay ==
    [][ nameOverlay' # nameOverlay =>
            UNCHANGED << pointEntities, lineEntities, labelEntities,
                         pointsPointEntities, entities, inputActions,
                         picks, numCalls, lastCall, linesAdded, labelsAdded >>
      ]_vars

\* The overlay follows the cursor while two points are captured, after one
\* triple was measured.
C19_Witness ==
    /\ nameOverlay = "block"
    /\ inputActions["MOUSE_MOVE"] = "curve"
    /\ Len(pointEntities) = 2
    /\ numCalls = 1

\* ----------------------------------------------- properties of the toolbox

\* C20: once the page has assigned a viewer, the viewer getter returns the
\* viewer assigned last, before and after the promise callback has run.
C20_GetterReturnsLastAssigned ==
    assigned # "none" => getViewer = assigned

====
